---- MODULE Spec2Model ----
(* Missionaries and cannibals: the breadth-first search of src/main.cpp.    *)
(* main parses up to two counts, solveMissionariesCannibals runs the BFS    *)
(* over State values with getValidMoves and isSafe.                         *)
EXTENDS Integers, Sequences, FiniteSets, TLC

VARIABLES
    pc,               \* position: "main", "loop", "done", "rejected", "abort", "hang" (inside a call of getValidMoves that never returns); "call"/"returned" for a direct call of getValidMoves or isSafe
    argv,             \* the command-line arguments after the program name
    initialState,     \* main's initialState
    statesToExplore,  \* the FIFO frontier (std::queue<State>)
    exploredStates,   \* the visited set (std::unordered_set<State>)
    currentState,     \* the state dequeued by the current iteration / the argument of getValidMoves
    validMoves,       \* the last vector returned by getValidMoves
    result,           \* return value of solveMissionariesCannibals: "none" until it returns
    exitStatus,       \* main's return value: -1 while running
    message,          \* the last line main printed
    trace,            \* the states printed by the search loop, in order
    safeResults,      \* the values returned by direct calls of isSafe, in call order
    crossings,        \* history: number of crossings of each frontier entry, parallel to statesToExplore
    currentCrossings  \* history: number of crossings of currentState

vars == <<pc, argv, initialState, statesToExplore, exploredStates, currentState,
          validMoves, result, exitStatus, message, trace, safeResults, crossings,
          currentCrossings>>

\* Largest count a command-line argument names.
MaxCount == 4
\* Largest count on a bank in a direct call of getValidMoves.
MaxBank == 2

DefaultMissionaries == 3
DefaultCannibals == 3

----------------------------------------------------------------------------
(* State *)

State(lm, lc, rm, rc, b) ==
    [leftMissionaries |-> lm, leftCannibals |-> lc,
     rightMissionaries |-> rm, rightCannibals |-> rc, boatOnLeft |-> b]

DefaultState == State(0, 0, 0, 0, TRUE)

----------------------------------------------------------------------------
(* std::stoi on the argument strings main receives *)

DigitChars == <<"0", "1", "2", "3", "4", "5", "6", "7", "8", "9">>

IsDigit(ch) == \E i \in 1..10 : DigitChars[i] = ch

DigitValue(ch) == (CHOOSE i \in 1..10 : DigitChars[i] = ch) - 1

\* The characters isspace accepts, which strtol skips before the number:
\* space, \t, \n, \v, \f, \r.
WhiteSpace == {" ", "\t", "\n", "", "\f", "\r"}

\* The range of int.
IntMax == 2147483647

IntMin == (0 - IntMax) - 1

\* Position of the first character of str at or after i that is not white space.
RECURSIVE skipSpace(_, _)
skipSpace(str, i) ==
    IF i <= Len(str) /\ str[i] \in WhiteSpace THEN skipSpace(str, i + 1) ELSE i

\* The longest prefix of digits of str from position i on, read after the
\* digits that gave acc. The magnitude is accumulated negated (so that the
\* magnitude of IntMin fits); the value is 1 once the digits name a
\* magnitude above that of IntMin.
RECURSIVE parseDigits(_, _, _)
parseDigits(str, i, acc) ==
    IF i > Len(str) \/ ~IsDigit(str[i])
    THEN acc
    ELSE LET d == DigitValue(str[i])
             tenth == 0 - (IntMax \div 10)
         IN  parseDigits(str, i + 1,
                 IF acc = 1 \/ acc < tenth \/ (acc = tenth /\ d > (IntMax % 10) + 1)
                 THEN 1
                 ELSE acc * 10 - d)

\* stoi: leading white space is skipped, then an optional sign, then at
\* least one digit; trailing characters are ignored. No digit at all throws
\* std::invalid_argument, a value outside int throws std::out_of_range.
stoi(str) ==
    LET start    == skipSpace(str, 1)
        signed   == start <= Len(str) /\ str[start] \in {"-", "+"}
        negative == signed /\ str[start] = "-"
        first    == IF signed THEN start + 1 ELSE start
        negated  == parseDigits(str, first, 0)
    IN  IF first > Len(str) \/ ~IsDigit(str[first])
        THEN [ok |-> FALSE, value |-> 0, error |-> "invalid_argument"]
        ELSE IF negated = 1 \/ (~negative /\ negated = IntMin)
        THEN [ok |-> FALSE, value |-> 0, error |-> "out_of_range"]
        ELSE [ok |-> TRUE, error |-> "",
              value |-> IF negative THEN negated ELSE 0 - negated]

----------------------------------------------------------------------------
(* int arithmetic *)

\* a + b in int. A sum outside IntMin..IntMax is a signed overflow, which is
\* undefined behaviour; the value is the one the builds of the program
\* produce, the sum reduced modulo 2^32 into the range of int.
intAdd(a, b) ==
    IF b > 0 /\ a > IntMax - b THEN IntMin + ((a - (IntMax - b)) - 1)
    ELSE IF b < 0 /\ a < IntMin - b THEN IntMax - (((IntMin - b) - a) - 1)
    ELSE a + b

\* a - b in int, in the same way.
intSub(a, b) ==
    IF b > 0 /\ a < IntMin + b THEN IntMax - (((IntMin + b) - a) - 1)
    ELSE IF b < 0 /\ a > IntMax + b THEN IntMin + ((a - (IntMax + b)) - 1)
    ELSE a - b

----------------------------------------------------------------------------
(* isSafe *)

isSafe_leftOnly(state) ==
    ~(state.leftMissionaries # 0 /\ state.leftMissionaries < state.leftCannibals)

isSafe_rightStrict(state) ==
    /\ ~(state.leftMissionaries # 0 /\ state.leftMissionaries < state.leftCannibals)
    /\ ~(state.rightMissionaries # 0 /\ state.rightMissionaries <= state.rightCannibals)

isSafe(state) ==
    /\ ~(state.leftMissionaries # 0 /\ state.leftMissionaries < state.leftCannibals)
    /\ ~(state.rightMissionaries # 0 /\ state.rightMissionaries < state.rightCannibals)

----------------------------------------------------------------------------
(* getValidMoves *)

\* The boat takes one or two occupants.
boatFits_three(m, c) == intAdd(m, c) >= 1 /\ intAdd(m, c) <= 3

boatFits_empty(m, c) == intAdd(m, c) >= 0 /\ intAdd(m, c) <= 2

boatFits(m, c) == intAdd(m, c) >= 1 /\ intAdd(m, c) <= 2

\* newState: currentState after m missionaries and c cannibals cross.
newState_noArrival(s, m, c) ==
    IF s.boatOnLeft
    THEN State(intSub(s.leftMissionaries, m), intSub(s.leftCannibals, c),
               s.rightMissionaries, s.rightCannibals, FALSE)
    ELSE State(intAdd(s.leftMissionaries, m), intAdd(s.leftCannibals, c),
               intSub(s.rightMissionaries, m), intSub(s.rightCannibals, c), TRUE)

newState_noFlip(s, m, c) ==
    IF s.boatOnLeft
    THEN State(intSub(s.leftMissionaries, m), intSub(s.leftCannibals, c),
               intAdd(s.rightMissionaries, m), intAdd(s.rightCannibals, c), TRUE)
    ELSE State(intAdd(s.leftMissionaries, m), intAdd(s.leftCannibals, c),
               intSub(s.rightMissionaries, m), intSub(s.rightCannibals, c), TRUE)

newState_noDeparture(s, m, c) ==
    IF s.boatOnLeft
    THEN State(s.leftMissionaries, s.leftCannibals,
               intAdd(s.rightMissionaries, m), intAdd(s.rightCannibals, c), FALSE)
    ELSE State(intAdd(s.leftMissionaries, m), intAdd(s.leftCannibals, c),
               intSub(s.rightMissionaries, m), intSub(s.rightCannibals, c), TRUE)

newState(s, m, c) ==
    IF s.boatOnLeft
    THEN State(intSub(s.leftMissionaries, m), intSub(s.leftCannibals, c),
               intAdd(s.rightMissionaries, m), intAdd(s.rightCannibals, c), FALSE)
    ELSE State(intAdd(s.leftMissionaries, m), intAdd(s.leftCannibals, c),
               intSub(s.rightMissionaries, m), intSub(s.rightCannibals, c), TRUE)

\* Upper limits of the loops over m and c: the counts on the boat's bank.
missionaryLimit(s) ==
    IF s.boatOnLeft THEN s.leftMissionaries ELSE s.rightMissionaries

cannibalLimit_capacity(s) == 2

cannibalLimit(s) ==
    IF s.boatOnLeft THEN s.leftCannibals ELSE s.rightCannibals

\* The two nested loops from (m, c) on: m ascending, c ascending within m.
\* The counters are ints: with a limit of IntMax the loop test never fails
\* (the ++ overflows) and the recursion, like the loop, does not end.
RECURSIVE movesFrom(_, _, _)
movesFrom(s, m, c) ==
    IF m > missionaryLimit(s) THEN <<>>
    ELSE IF c > cannibalLimit(s) THEN movesFrom(s, intAdd(m, 1), 0)
    ELSE (IF boatFits(m, c) /\ isSafe(newState(s, m, c))
          THEN <<newState(s, m, c)>>
          ELSE <<>>) \o movesFrom(s, m, intAdd(c, 1))

\* Whether the loops of getValidMoves on s end: the outer loop is not
\* entered, or both loop tests can fail.
loopsEnd(s) ==
    \/ missionaryLimit(s) < 0
    \/ missionaryLimit(s) < IntMax /\ cannibalLimit(s) < IntMax

getValidMoves(s) == movesFrom(s, 0, 0)

----------------------------------------------------------------------------
(* solveMissionariesCannibals *)

isGoal_boatLeft(s) ==
    s.leftMissionaries = 0 /\ s.leftCannibals = 0 /\ s.boatOnLeft

isGoal(s) ==
    s.leftMissionaries = 0 /\ s.leftCannibals = 0 /\ ~s.boatOnLeft

\* statesToExplore.pop()
pop(q) == Tail(q)

\* The successors the loop pushes: the moves not found in the visited set.
unexplored_all(moves, explored) == moves

RECURSIVE unexplored(_, _)
unexplored(moves, explored) ==
    IF moves = <<>> THEN <<>>
    ELSE (IF Head(moves) \notin explored THEN <<Head(moves)>> ELSE <<>>)
         \o unexplored(Tail(moves), explored)

\* The loop body for a dequeued state that is not in the visited set and is
\* not the goal: the frontier after the pop and the pushes.
pushMoves_front(q, moves, explored) == unexplored(moves, explored) \o pop(q)

pushMoves(q, moves, explored) == pop(q) \o unexplored(moves, explored)

----------------------------------------------------------------------------
(* main *)

\* What main does with the arguments before the search: "search" with the
\* initial state, "rejected" (negative count, return 1) or "abort" (stoi threw).
mainParse(args) ==
    LET argc == Len(args) + 1
        c == IF argc = 3 THEN stoi(args[2]) ELSE [ok |-> TRUE, value |-> 0, error |-> ""]
        m == IF argc \in {2, 3} THEN stoi(args[1]) ELSE [ok |-> TRUE, value |-> 0, error |-> ""]
    IN  IF argc \notin {2, 3}
        THEN [kind |-> "search", message |-> "",
              state |-> State(DefaultMissionaries, DefaultCannibals, 0, 0, TRUE)]
        ELSE IF ~c.ok
        THEN [kind |-> "abort", message |-> "", state |-> DefaultState]
        ELSE IF c.value < 0
        THEN [kind |-> "rejected", message |-> "Cannibal count cannot be negative.",
              state |-> State(0, c.value, 0, 0, TRUE)]
        ELSE IF ~m.ok
        THEN [kind |-> "abort", message |-> "", state |-> State(0, c.value, 0, 0, TRUE)]
        ELSE IF m.value < 0
        THEN [kind |-> "rejected", message |-> "Missionary count cannot be negative.",
              state |-> State(m.value, c.value, 0, 0, TRUE)]
        ELSE [kind |-> "search", message |-> "",
              state |-> State(m.value, c.value, 0, 0, TRUE)]

\* The argument strings tried: the counts 0..MaxCount, negative counts, a
\* count and a negative count after white space, a string that is not a
\* number, the largest int and the two numbers next to the range of int.
Digits(n) == <<DigitChars[n + 1]>>

ArgStrings ==
    {Digits(n) : n \in 0..MaxCount} \cup
    {<<"-", "1">>, <<"x">>, <<" ", "1">>, <<"\t", "-", "2">>,
     <<"2", "1", "4", "7", "4", "8", "3", "6", "4", "7">>,
     <<"2", "1", "4", "7", "4", "8", "3", "6", "4", "8">>,
     <<"-", "2", "1", "4", "7", "4", "8", "3", "6", "4", "9">>}

\* With three arguments (argc = 4) main reads none of them.
ArgLists ==
    UNION {[1..n -> ArgStrings] : n \in 0..2} \cup [1..3 -> {Digits(0), <<"-", "1">>}]

----------------------------------------------------------------------------
(* Actions *)

Init ==
    /\ pc = "main"
    /\ argv = <<>>
    /\ initialState = DefaultState
    /\ statesToExplore = <<>>
    /\ exploredStates = {}
    /\ currentState = DefaultState
    /\ validMoves = <<>>
    /\ result = "none"
    /\ exitStatus = -1
    /\ message = ""
    /\ trace = <<>>
    /\ safeResults = <<>>
    /\ crossings = <<>>
    /\ currentCrossings = 0

\* main up to the call of solveMissionariesCannibals, and the first lines of
\* that function: the frontier holds the initial state.
Main ==
    /\ pc = "main"
    /\ \E args \in ArgLists :
          LET r == mainParse(args) IN
          /\ argv' = args
          /\ initialState' = r.state
          /\ message' = r.message
          /\ IF r.kind = "search"
             THEN /\ pc' = "loop"
                  /\ statesToExplore' = <<r.state>>
                  /\ crossings' = <<0>>
                  /\ exitStatus' = exitStatus
             ELSE IF r.kind = "rejected"
             THEN /\ pc' = "rejected"
                  /\ exitStatus' = 1
                  /\ UNCHANGED <<statesToExplore, crossings>>
             ELSE /\ pc' = "abort"
                  /\ UNCHANGED <<statesToExplore, crossings, exitStatus>>
    /\ UNCHANGED <<exploredStates, currentState, validMoves, result, trace,
                   safeResults, currentCrossings>>

LoopSkip_retrace ==
    /\ pc = "loop"
    /\ statesToExplore # <<>>
    /\ Head(statesToExplore) \in exploredStates
    /\ currentState' = Head(statesToExplore)
    /\ currentCrossings' = Head(crossings)
    /\ statesToExplore' = pop(statesToExplore)
    /\ crossings' = pop(crossings)
    /\ trace' = Append(trace, Head(statesToExplore))
    /\ UNCHANGED <<pc, argv, initialState, exploredStates, validMoves, result,
                   exitStatus, message, safeResults>>

\* One iteration whose dequeued state is already in the visited set: continue.
LoopSkip ==
    /\ pc = "loop"
    /\ statesToExplore # <<>>
    /\ Head(statesToExplore) \in exploredStates
    /\ currentState' = Head(statesToExplore)
    /\ currentCrossings' = Head(crossings)
    /\ statesToExplore' = pop(statesToExplore)
    /\ crossings' = pop(crossings)
    /\ UNCHANGED <<pc, argv, initialState, exploredStates, validMoves, result,
                   exitStatus, message, trace, safeResults>>

\* One iteration whose dequeued state is new and is the goal: return true,
\* and main prints the outcome and returns 0.
LoopGoal ==
    /\ pc = "loop"
    /\ statesToExplore # <<>>
    /\ Head(statesToExplore) \notin exploredStates
    /\ isGoal(Head(statesToExplore))
    /\ currentState' = Head(statesToExplore)
    /\ currentCrossings' = Head(crossings)
    /\ statesToExplore' = pop(statesToExplore)
    /\ crossings' = pop(crossings)
    /\ exploredStates' = exploredStates \cup {Head(statesToExplore)}
    /\ trace' = Append(trace, Head(statesToExplore))
    /\ result' = TRUE
    /\ message' = "Solution found!"
    /\ exitStatus' = 0
    /\ pc' = "done"
    /\ UNCHANGED <<argv, initialState, validMoves, safeResults>>

LoopExpand_markAtEnqueue ==
    /\ pc = "loop"
    /\ statesToExplore # <<>>
    /\ Head(statesToExplore) \notin exploredStates
    /\ ~isGoal(Head(statesToExplore))
    /\ loopsEnd(Head(statesToExplore))
    /\ LET cur   == Head(statesToExplore)
           moves == getValidMoves(cur)
           seen  == exploredStates \cup {cur}
       IN  /\ currentState' = cur
           /\ currentCrossings' = Head(crossings)
           /\ exploredStates' = seen \cup {moves[i] : i \in 1..Len(moves)}
           /\ trace' = Append(trace, cur)
           /\ validMoves' = moves
           /\ statesToExplore' = pushMoves(statesToExplore, moves, seen)
           /\ crossings' = pushMoves(crossings,
                  [i \in 1..Len(unexplored(moves, seen)) |-> Head(crossings) + 1], {})
    /\ UNCHANGED <<pc, argv, initialState, result, exitStatus, message, safeResults>>

\* One iteration whose dequeued state is new and is not the goal: its moves
\* that are not in the visited set are pushed.
LoopExpand ==
    /\ pc = "loop"
    /\ statesToExplore # <<>>
    /\ Head(statesToExplore) \notin exploredStates
    /\ ~isGoal(Head(statesToExplore))
    /\ loopsEnd(Head(statesToExplore))
    /\ LET cur   == Head(statesToExplore)
           moves == getValidMoves(cur)
           seen  == exploredStates \cup {cur}
       IN  /\ currentState' = cur
           /\ currentCrossings' = Head(crossings)
           /\ exploredStates' = seen
           /\ trace' = Append(trace, cur)
           /\ validMoves' = moves
           /\ statesToExplore' = pushMoves(statesToExplore, moves, seen)
           /\ crossings' = pushMoves(crossings,
                  [i \in 1..Len(unexplored(moves, seen)) |-> Head(crossings) + 1], {})
    /\ UNCHANGED <<pc, argv, initialState, result, exitStatus, message, safeResults>>

\* One iteration whose dequeued state is new, is not the goal and has
\* INT_MAX people of one kind on the boat's bank: the state is inserted and
\* printed, then getValidMoves is called and its loop never ends (the test
\* m <= INT_MAX or c <= INT_MAX cannot fail; the ++ of the counter overflows,
\* which is undefined behaviour, and every build keeps looping).
LoopHang ==
    /\ pc = "loop"
    /\ statesToExplore # <<>>
    /\ Head(statesToExplore) \notin exploredStates
    /\ ~isGoal(Head(statesToExplore))
    /\ ~loopsEnd(Head(statesToExplore))
    /\ currentState' = Head(statesToExplore)
    /\ currentCrossings' = Head(crossings)
    /\ statesToExplore' = pop(statesToExplore)
    /\ crossings' = pop(crossings)
    /\ exploredStates' = exploredStates \cup {Head(statesToExplore)}
    /\ trace' = Append(trace, Head(statesToExplore))
    /\ pc' = "hang"
    /\ UNCHANGED <<argv, initialState, validMoves, result, exitStatus, message,
                   safeResults>>

\* The frontier is empty: return false, and main prints the outcome and
\* returns 0.
LoopExit ==
    /\ pc = "loop"
    /\ statesToExplore = <<>>
    /\ result' = FALSE
    /\ message' = "No solution exists."
    /\ exitStatus' = 0
    /\ pc' = "done"
    /\ UNCHANGED <<argv, initialState, statesToExplore, exploredStates,
                   currentState, validMoves, trace, safeResults, crossings,
                   currentCrossings>>

Next == Main \/ LoopSkip \/ LoopGoal \/ LoopExpand \/ LoopHang \/ LoopExit

Spec == Init /\ [][Next]_vars

\* The program runs to completion: it is never suspended for ever while a
\* step is possible.
LiveSpec == Spec /\ WF_vars(Next)

----------------------------------------------------------------------------
(* getValidMoves called directly on a state *)

\* The counts tried on a bank: 0..MaxBank and the two largest ints.
BankCounts == (0..MaxBank) \cup {IntMax - 1, IntMax}

\* The states tried. A state with IntMax - 1 people of one kind on the boat's
\* bank is left out: getValidMoves returns on it after 2^31 turns of a loop,
\* which cannot be enumerated.
BankStates ==
    {s \in {State(lm, lc, rm, rc, b) :
                lm \in BankCounts, lc \in BankCounts, rm \in BankCounts,
                rc \in BankCounts, b \in BOOLEAN} :
        missionaryLimit(s) # IntMax - 1 /\ cannibalLimit(s) # IntMax - 1}

MovesInit ==
    /\ pc = "call"
    /\ currentState \in BankStates
    /\ argv = <<>>
    /\ initialState = DefaultState
    /\ statesToExplore = <<>>
    /\ exploredStates = {}
    /\ validMoves = <<>>
    /\ result = "none"
    /\ exitStatus = -1
    /\ message = ""
    /\ trace = <<>>
    /\ safeResults = <<>>
    /\ crossings = <<>>
    /\ currentCrossings = 0

CallGetValidMoves ==
    /\ pc = "call"
    /\ loopsEnd(currentState)
    /\ validMoves' = getValidMoves(currentState)
    /\ pc' = "returned"
    /\ UNCHANGED <<argv, initialState, statesToExplore, exploredStates,
                   currentState, result, exitStatus, message, trace, safeResults,
                   crossings, currentCrossings>>

\* The call never returns: a loop test of getValidMoves cannot fail.
CallHangs ==
    /\ pc = "call"
    /\ ~loopsEnd(currentState)
    /\ pc' = "hang"
    /\ UNCHANGED <<argv, initialState, statesToExplore, exploredStates,
                   currentState, validMoves, result, exitStatus, message, trace,
                   safeResults, crossings, currentCrossings>>

MovesNext == CallGetValidMoves \/ CallHangs

MovesSpec == MovesInit /\ [][MovesNext]_vars

----------------------------------------------------------------------------
(* isSafe called directly on a state and on the state with the banks swapped *)

\* The state with the counts of the two banks exchanged and the boat on side b.
swapBanks(s, b) ==
    State(s.rightMissionaries, s.rightCannibals,
          s.leftMissionaries, s.leftCannibals, b)

SafeInit ==
    /\ pc = "call"
    /\ currentState \in BankStates
    /\ \E b \in BOOLEAN : initialState = swapBanks(currentState, b)
    /\ argv = <<>>
    /\ statesToExplore = <<>>
    /\ exploredStates = {}
    /\ validMoves = <<>>
    /\ result = "none"
    /\ exitStatus = -1
    /\ message = ""
    /\ trace = <<>>
    /\ safeResults = <<>>
    /\ crossings = <<>>
    /\ currentCrossings = 0

\* isSafe(currentState), then isSafe(initialState).
CallIsSafe ==
    /\ pc = "call"
    /\ safeResults' = <<isSafe(currentState), isSafe(initialState)>>
    /\ pc' = "returned"
    /\ UNCHANGED <<argv, initialState, statesToExplore, exploredStates,
                   currentState, validMoves, result, exitStatus, message, trace,
                   crossings, currentCrossings>>

SafeNext == CallIsSafe

SafeSpec == SafeInit /\ [][SafeNext]_vars

----------------------------------------------------------------------------
(* Properties *)

\* The initial state main builds from M missionaries and C cannibals.
Start(M, C) == State(M, C, 0, 0, TRUE)

Searching == pc \in {"loop", "done", "hang"}

\* The states held by the frontier.
Frontier == {statesToExplore[i] : i \in 1..Len(statesToExplore)}

\* On one bank: no missionary, or the missionaries are not fewer than the
\* cannibals.
BankNotOutnumbered(m, c) == m = 0 \/ m >= c

\* C1 (as stated): the search from 4 missionaries and 4 cannibals returns true.
C1_Original ==
    (pc = "done" /\ initialState = Start(4, 4)) => result = TRUE

\* C1 (amended): the search from 4 missionaries and 4 cannibals returns
\* false: with a boat of one or two occupants no chain of safe crossings
\* reaches the goal, and the frontier empties.
C1_NoSolutionFor44 ==
    (pc = "done" /\ initialState = Start(4, 4)) =>
        (result = FALSE /\ statesToExplore = <<>>)

C1_Witness ==
    /\ pc = "done"
    /\ initialState = Start(4, 4)
    /\ result = FALSE
    /\ Cardinality(exploredStates) > 1

\* C2: the search from 3 missionaries and 3 cannibals returns true, and the
\* goal state it reaches is at most 11 crossings from the initial state.
C2_Solved33 ==
    (pc = "done" /\ initialState = Start(3, 3)) =>
        /\ result = TRUE
        /\ currentState.leftMissionaries = 0
        /\ currentState.leftCannibals = 0
        /\ ~currentState.boatOnLeft
        /\ currentCrossings <= 11

C2_Witness ==
    /\ pc = "done"
    /\ initialState = Start(3, 3)
    /\ currentState = State(0, 0, 3, 3, FALSE)
    /\ currentCrossings > 0

\* C3: a search started from any counts M, C >= 0 terminates: the loop is
\* left, with true or with false.
C3_Terminates == (pc = "loop") ~> (pc = "done")

\* C4: every state in the frontier or in the visited set has the initial
\* number of missionaries and the initial number of cannibals over its two
\* banks.
C4_Conservation ==
    Searching =>
        \A s \in Frontier \cup exploredStates :
            /\ s.leftMissionaries + s.rightMissionaries = initialState.leftMissionaries
            /\ s.leftCannibals + s.rightCannibals = initialState.leftCannibals

C4_Witness ==
    /\ pc = "loop"
    /\ \E s \in Frontier : s.rightMissionaries > 0 /\ s.leftCannibals > 0
    /\ \E s \in exploredStates : s.rightCannibals > 0 /\ s.leftMissionaries > 0

\* C5: every state getValidMoves returns, for any input with non-negative
\* counts, is safe: on neither bank are missionaries outnumbered.
C5_MovesAreSafe ==
    pc = "returned" =>
        \A i \in 1..Len(validMoves) :
            /\ BankNotOutnumbered(validMoves[i].leftMissionaries, validMoves[i].leftCannibals)
            /\ BankNotOutnumbered(validMoves[i].rightMissionaries, validMoves[i].rightCannibals)

\* A call that returned a move although another crossing from that state
\* would leave missionaries outnumbered on the arrival bank.
C5_Witness ==
    /\ pc = "returned"
    /\ Len(validMoves) > 0
    /\ currentState.boatOnLeft
    /\ currentState.leftCannibals > 0
    /\ currentState.rightMissionaries > 0
    /\ currentState.rightMissionaries <= currentState.rightCannibals

\* C6: from 0 missionaries and 0 cannibals getValidMoves produces no move
\* and the search returns false.
C6_NobodyNoSolution ==
    (Searching /\ initialState = Start(0, 0)) =>
        /\ validMoves = <<>>
        /\ Frontier \subseteq {initialState}
        /\ pc = "done" => result = FALSE

C6_Witness ==
    /\ pc = "done"
    /\ initialState = Start(0, 0)
    /\ trace = <<Start(0, 0)>>
    /\ result = FALSE

\* C7: from 1 missionary and 0 cannibals the missionary crosses in one trip
\* and the search returns true.
C7_OneMissionary ==
    (pc = "done" /\ initialState = Start(1, 0)) =>
        /\ result = TRUE
        /\ currentState = State(0, 0, 1, 0, FALSE)
        /\ currentCrossings = 1

C7_Witness ==
    /\ pc = "done"
    /\ initialState = Start(1, 0)
    /\ trace = <<Start(1, 0), State(0, 0, 1, 0, FALSE)>>

\* C8: every state in the frontier or in the visited set has four counts
\* that are all >= 0.
C8_NonNegative ==
    Searching =>
        \A s \in Frontier \cup exploredStates :
            /\ s.leftMissionaries >= 0
            /\ s.leftCannibals >= 0
            /\ s.rightMissionaries >= 0
            /\ s.rightCannibals >= 0

\* A state that emptied a bank of its cannibals is in the visited set.
C8_Witness ==
    /\ pc = "loop"
    /\ initialState.leftCannibals > 0
    /\ \E s \in exploredStates : s.leftCannibals = 0 /\ s.rightCannibals > 0
    /\ \E s \in Frontier : s.rightMissionaries = 0 /\ s.leftMissionaries > 0

\* C9: getValidMoves never returns its input: in every returned state the
\* boat is on the other side and somebody has changed bank.
C9_MovesDiffer ==
    pc = "returned" =>
        \A i \in 1..Len(validMoves) :
            /\ validMoves[i] # currentState
            /\ validMoves[i].boatOnLeft # currentState.boatOnLeft
            /\ \/ validMoves[i].leftMissionaries # currentState.leftMissionaries
               \/ validMoves[i].leftCannibals # currentState.leftCannibals

C9_Witness ==
    /\ pc = "returned"
    /\ Len(validMoves) > 1
    /\ ~currentState.boatOnLeft

\* C10: the visited set of a search from M missionaries and C cannibals
\* never holds more than 2 * (M+1) * (C+1) states. (Two states or fewer are
\* within the bound whatever M and C >= 0 are; the product is computed for
\* larger sets only.)
C10_ExploredBound ==
    Searching =>
        \/ Cardinality(exploredStates) <= 2
        \/ Cardinality(exploredStates) <=
               2 * (initialState.leftMissionaries + 1) * (initialState.leftCannibals + 1)

C10_Witness ==
    /\ pc = "done"
    /\ result = FALSE
    /\ Cardinality(exploredStates) >=
           (initialState.leftMissionaries + 1) * (initialState.leftCannibals + 1)
    /\ initialState.leftMissionaries > 0

\* C11: with one or two arguments, whenever a supplied count is negative main
\* prints the failure message and exits with status 1 without starting the
\* search, the message naming the cannibal count when that one is negative
\* (it is checked first); the search runs only if both counts are >= 0.
\* A supplied count is negative when the argument, as written, is a minus
\* sign and digits that are not all 0, white space before the sign allowed;
\* this is a statement about the input, whatever main makes of it.
C11_NegativeRejected ==
    LET negative(a) ==
            LET sign == skipSpace(a, 1)
            IN  /\ sign <= Len(a)
                /\ a[sign] = "-"
                /\ \E j \in (sign + 1)..Len(a) :
                       /\ a[j] # "0"
                       /\ \A k \in (sign + 1)..j : IsDigit(a[k])
    IN  (pc # "main" /\ Len(argv) \in {1, 2}) =>
            /\ (\E i \in 1..Len(argv) : negative(argv[i])) =>
                  /\ pc = "rejected"
                  /\ exitStatus = 1
                  /\ message = IF Len(argv) = 2 /\ negative(argv[2])
                               THEN "Cannibal count cannot be negative."
                               ELSE "Missionary count cannot be negative."
                  /\ statesToExplore = <<>> /\ exploredStates = {} /\ trace = <<>>
                  /\ result = "none"
            /\ Searching => \A i \in 1..Len(argv) : stoi(argv[i]).ok /\ stoi(argv[i]).value >= 0

\* C12: isSafe gives the same answer for a state and for the state with the
\* counts of the two banks exchanged, whatever the boat sides.
C12_SafeSymmetric ==
    (pc = "returned" /\ Len(safeResults) = 2) => safeResults[1] = safeResults[2]

\* A pair of calls on an unsafe state whose two banks differ.
C12_Witness ==
    /\ pc = "returned"
    /\ safeResults = <<FALSE, FALSE>>
    /\ currentState.leftMissionaries # currentState.rightMissionaries
    /\ currentState.boatOnLeft = initialState.boatOnLeft

\* The states one crossing away from s.
Successors(s) == {getValidMoves(s)[i] : i \in 1..Len(getValidMoves(s))}

\* The states reachable from the states of S by any number of crossings.
RECURSIVE ReachableFrom(_)
ReachableFrom(S) ==
    LET T == S \cup UNION {Successors(s) : s \in S}
    IN  IF T = S THEN S ELSE ReachableFrom(T)

\* Everybody has left the left bank and the boat is on the right.
GoalState(s) == s.leftMissionaries = 0 /\ s.leftCannibals = 0 /\ s.boatOnLeft = FALSE

\* C13: every search returns, true exactly when a goal state is reachable
\* from the initial state by a chain of moves getValidMoves produces, and
\* false exactly when none is.
C13_TrueIffReachable ==
    pc \in {"done", "hang"} =>
        /\ pc = "done"
        /\ result \in BOOLEAN
        /\ result = (\E s \in ReachableFrom({initialState}) : GoalState(s))

\* The boat loads in the order of the loops: m ascending, c ascending within m.
Loads == <<<<0, 1>>, <<0, 2>>, <<1, 0>>, <<1, 1>>, <<2, 0>>>>

\* The state after load ld has crossed from the boat's bank of s, the counts
\* being ints.
Crossed(s, ld) ==
    IF s.boatOnLeft
    THEN [leftMissionaries |-> intSub(s.leftMissionaries, ld[1]),
          leftCannibals |-> intSub(s.leftCannibals, ld[2]),
          rightMissionaries |-> intAdd(s.rightMissionaries, ld[1]),
          rightCannibals |-> intAdd(s.rightCannibals, ld[2]),
          boatOnLeft |-> FALSE]
    ELSE [leftMissionaries |-> intAdd(s.leftMissionaries, ld[1]),
          leftCannibals |-> intAdd(s.leftCannibals, ld[2]),
          rightMissionaries |-> intSub(s.rightMissionaries, ld[1]),
          rightCannibals |-> intSub(s.rightCannibals, ld[2]),
          boatOnLeft |-> TRUE]

\* The loads the boat's bank of s can supply and that leave both banks safe.
AllowedLoads(s) ==
    LET Allowed(ld) ==
            /\ ld[1] <= (IF s.boatOnLeft THEN s.leftMissionaries ELSE s.rightMissionaries)
            /\ ld[2] <= (IF s.boatOnLeft THEN s.leftCannibals ELSE s.rightCannibals)
            /\ BankNotOutnumbered(Crossed(s, ld).leftMissionaries, Crossed(s, ld).leftCannibals)
            /\ BankNotOutnumbered(Crossed(s, ld).rightMissionaries, Crossed(s, ld).rightCannibals)
    IN  SelectSeq(Loads, Allowed)

\* C14: getValidMoves returns, and what it returns is one state for each
\* load (m, c) with 1 <= m + c <= 2 that the boat's bank can supply and whose
\* result is safe, no other state, in ascending m then ascending c order.
C14_ExactMoves ==
    (pc \in {"returned", "hang"} /\ safeResults = <<>>) =>
        /\ pc = "returned"
        /\ validMoves = [i \in 1..Len(AllowedLoads(currentState)) |->
                             Crossed(currentState, AllowedLoads(currentState)[i])]

\* Neither bank of s has missionaries outnumbered.
BanksNotOutnumbered(s) ==
    /\ BankNotOutnumbered(s.leftMissionaries, s.leftCannibals)
    /\ BankNotOutnumbered(s.rightMissionaries, s.rightCannibals)

\* C15 (as stated): every state the search dequeues, inserts into the visited
\* set and expands, the initial state included, is safe.
C15_Original ==
    Searching => \A i \in 1..Len(trace) : BanksNotOutnumbered(trace[i])

\* C15 (amended): every state the search inserts into the visited set and
\* expands after the initial state is safe; the initial state is expanded
\* first, whether safe or not, and it is safe exactly when M = 0 or M >= C.
C15_SafeAfterInitial ==
    Searching =>
        \A i \in 1..Len(trace) :
            IF i = 1
            THEN /\ trace[1] = initialState
                 /\ BanksNotOutnumbered(trace[1]) <=>
                        \/ initialState.leftMissionaries = 0
                        \/ initialState.leftMissionaries >= initialState.leftCannibals
            ELSE BanksNotOutnumbered(trace[i])

\* A search from an unsafe initial state that has expanded further states.
C15_Witness ==
    /\ pc = "loop"
    /\ Len(trace) >= 3
    /\ ~BanksNotOutnumbered(trace[1])
    /\ trace[3].rightMissionaries > 0

\* C16: a dequeued state that is already in the visited set is discarded: it
\* is not traced, not goal-tested and not given to getValidMoves; a state that
\* is traced has not been traced before.
C16_ExpandedOnce ==
    [][(pc = "loop" /\ statesToExplore # <<>>) =>
          IF Head(statesToExplore) \in exploredStates
          THEN /\ trace' = trace
               /\ validMoves' = validMoves
               /\ exploredStates' = exploredStates
               /\ result' = result
               /\ pc' = "loop"
          ELSE /\ trace' = Append(trace, Head(statesToExplore))
               /\ \A i \in 1..Len(trace) : trace[i] # Head(statesToExplore)]_vars

\* The state just dequeued was already visited and has been discarded.
C16_Witness ==
    /\ pc = "loop"
    /\ currentState \in exploredStates
    /\ Len(trace) > 0
    /\ trace[Len(trace)] # currentState
    /\ statesToExplore # <<>>

\* The least number of crossings after which a goal state is reached from
\* the states of level, themselves k crossings from the start; -1 if never.
RECURSIVE GoalDepth(_, _, _)
GoalDepth(level, seen, k) ==
    IF \E s \in level : GoalState(s) THEN k
    ELSE IF level = {} THEN 0 - 1
    ELSE GoalDepth((UNION {Successors(s) : s \in level}) \ (seen \cup level),
                   seen \cup level, k + 1)

\* C17: states leave the frontier in breadth-first order: the numbers of
\* crossings of the frontier entries never decrease from front to back and
\* none is below that of the state dequeued last; when the search returns
\* true the goal state it dequeued is at the least number of crossings at
\* which a goal state is reachable.
C17_BreadthFirst ==
    Searching =>
        /\ Len(crossings) = Len(statesToExplore)
        /\ \A i \in 1..Len(crossings) : currentCrossings <= crossings[i]
        /\ \A i \in 1..Len(crossings) : \A j \in i..Len(crossings) :
               crossings[i] <= crossings[j]
        /\ (pc = "done" /\ result = TRUE) =>
               currentCrossings = GoalDepth({initialState}, {}, 0)

\* A search that returned true at a goal several crossings away while
\* entries were still waiting in the frontier.
C17_Witness ==
    /\ pc = "done"
    /\ result = TRUE
    /\ currentCrossings >= 5
    /\ exploredStates # {}
    /\ initialState.leftCannibals > 0

\* C18: every successor an iteration enqueues is absent from the visited set
\* at that moment (the entries already waiting are kept in order); the
\* frontier may still hold one state several times.
C18_EnqueueUnvisited ==
    [][(pc = "loop" /\ statesToExplore # <<>>) =>
          /\ Len(statesToExplore') >= Len(statesToExplore) - 1
          /\ \A i \in 1..(Len(statesToExplore) - 1) :
                 statesToExplore'[i] = statesToExplore[i + 1]
          /\ \A i \in Len(statesToExplore)..Len(statesToExplore') :
                 statesToExplore'[i] \notin exploredStates']_vars

\* The frontier of the search from 3 missionaries and 3 cannibals holds one
\* state twice.
C18_Witness ==
    /\ pc = "loop"
    /\ initialState = Start(3, 3)
    /\ \E i \in 1..Len(statesToExplore) : \E j \in 1..Len(statesToExplore) :
           i < j /\ statesToExplore[i] = statesToExplore[j]
                 /\ statesToExplore[i] \notin exploredStates

\* C19: no step removes a state from the visited set, and a step that adds
\* to it adds exactly the state it dequeues from the front of the frontier.
C19_VisitedMonotone ==
    [][/\ exploredStates \subseteq exploredStates'
       /\ exploredStates' # exploredStates =>
              /\ pc = "loop"
              /\ statesToExplore # <<>>
              /\ exploredStates' = exploredStates \cup {Head(statesToExplore)}
              /\ currentState' = Head(statesToExplore)
              /\ \A i \in 1..(Len(statesToExplore) - 1) :
                     statesToExplore'[i] = statesToExplore[i + 1]]_vars

\* The visited set has grown by several dequeued states, the last of them
\* the current state.
C19_Witness ==
    /\ pc = "loop"
    /\ Cardinality(exploredStates) >= 4
    /\ Cardinality(exploredStates) = Len(trace)
    /\ trace[Len(trace)] = currentState
    /\ statesToExplore # <<>>
    /\ currentState \notin Frontier

====
